---- MODULE Spec2Model ----
(***************************************************************************)
(* Monte Carlo project simulator (services/simulator: sampleTriangular,    *)
(* topologicalSort, runSimulation) together with the task editor's         *)
(* removeTask and the App component's handlers.                            *)
(*                                                                         *)
(* Spec is runSimulation called directly, one loop iteration per step.     *)
(* SpecApp is the App component: its handlers and its timer callback, the  *)
(* callback running a whole runSimulation call in one step.  SpecChat is   *)
(* the chat of the App alone, under every way its request can settle, and  *)
(* SpecChatFair is SpecChat with every request settling.                   *)
(*                                                                         *)
(* Numbers.  Estimates are whole days.  Sampled durations and every time   *)
(* derived from them are fixed-point integers in units of 1/Scale day; the *)
(* square root of sampleTriangular is rounded down to that grid.  A value  *)
(* that may be undefined in the source is an optional: <<>> is undefined   *)
(* and <<v>> is the value v.                                               *)
(*                                                                         *)
(* Math.random is a stream of draws u = stream[k] / UDen fixed when the    *)
(* program starts and read cyclically; rngPos counts the draws consumed.   *)
(***************************************************************************)
EXTENDS Integers, Sequences, FiniteSets, TLC

VARIABLES
    project,          \* ProjectData.tasks : the task list held by the editor
    edits,            \* number of editor operations applied so far
    iterations,       \* the iterations argument of runSimulation, <<>> when omitted
    stream,           \* the numerators of the uniform draws Math.random returns
    rngPos,           \* number of Math.random calls made so far
    pc,               \* "planner" | "loop" | "done" | "thrown"
    error,            \* <<>> or <<e>>, e the Error thrown out of runSimulation
    sortedTasks,      \* runSimulation's sortedTasks, <<>> before it is assigned
    resourceTypes,    \* runSimulation's resourceTypes set
    i,                \* the run loop's counter
    results,          \* runSimulation's results array
    taskFinishTimes,  \* taskFinishTimes of the most recent run
    stats,            \* <<>> or <<s>>, s the SimulationStats returned
    view,             \* App: 'planner' | 'results'
    messages,         \* App: the chat messages
    isAiLoading,      \* App: a chat request is being answered
    inFlight,         \* number of generateContent calls not yet settled
    lastOutcome,      \* history: <<>> or <<o>>, o how the latest generateContent call settled
    projectNull,      \* App: project is null (project is then <<>>)
    timers,           \* the task lists captured by the pending setTimeout callbacks
    uncaught,         \* <<>> or <<e>>, e the latest error thrown out of a timer callback
    simResults,       \* App: the stored run results
    simStats,         \* App: <<>> (null) or <<s>>, the stored statistics
    simProject        \* history: <<>> or <<p>>, p the task list simStats was computed from

appVars == <<view, messages, isAiLoading, inFlight, lastOutcome, projectNull, timers,
             uncaught, simResults, simStats, simProject>>

vars == <<project, edits, iterations, stream, rngPos, pc, error, sortedTasks,
          resourceTypes, i, results, taskFinishTimes, stats, view, messages,
          isAiLoading, inFlight, lastOutcome, projectNull, timers,
          uncaught, simResults, simStats, simProject>>

----------------------------------------------------------------------------
(* Bounds of the model *)

MaxTasks == 3

MaxEdges == 3

MaxIter == 21

MaxEdits == 1

UDen == 4

Scale == 10

MaxDays == 3

MaxChats == 2

MaxAppChats == 1

MaxTimers == 1

(* Program constants *)

DefaultIterations == 2000

(* runSimulation(project, 2000) in App.handleRunSimulation *)
AppIterations == 2000

----------------------------------------------------------------------------
(* Generic helpers *)

Range(s) == {s[k] : k \in DOMAIN s}

Max(S) == CHOOSE x \in S : \A y \in S : y <= x

ISqrt(x) == CHOOSE r \in 0..x : r * r <= x /\ x < (r + 1) * (r + 1)

RECURSIVE SetSum(_, _)
SetSum(S, w) ==
    IF S = {} THEN 0
    ELSE LET v == CHOOSE x \in S : TRUE IN v * w[v] + SetSum(S \ {v}, w)

(* reduce((a, b) => a + b, 0) over an array of numbers *)
SeqSum(s) ==
    SetSum(Range(s), [v \in Range(s) |-> Cardinality({k \in DOMAIN s : s[k] = v})])

IdPool == <<"A", "B", "C", "D", "E", "F">>

NaN == "NaN"

----------------------------------------------------------------------------
(* types.ts *)

Task(id, optimistic, mostLikely, pessimistic, dependencies, resourceType, resourceCount) ==
    [id |-> id, optimistic |-> optimistic, mostLikely |-> mostLikely,
     pessimistic |-> pessimistic, dependencies |-> dependencies,
     resourceType |-> resourceType, resourceCount |-> resourceCount]

(* JavaScript truthiness of an optional string: undefined and "" are falsy *)
TruthyString(o) == o # <<>> /\ o[1] # ""

(* JavaScript truthiness of an optional number: undefined and 0 are falsy *)
TruthyNumber(o) == o # <<>> /\ o[1] # 0

----------------------------------------------------------------------------
(* sampleTriangular, with the draw u = k / UDen passed in.                 *)
(* f = (mode - min) / (max - min) follows IEEE 754: with max = min it is   *)
(* NaN (0/0), +Infinity or -Infinity, and u < NaN is false.                *)

DrawBelowF(min, mode, max, k) ==
    IF max - min = 0 THEN mode - min > 0
    ELSE IF max - min > 0 THEN k * (max - min) < UDen * (mode - min)
    ELSE k * (max - min) > UDen * (mode - min)

(* RootOffset without the square root *)
RootOffsetNoSqrt(x, sign, num) ==
    IF num < 0 THEN NaN
    ELSE x * Scale + sign * ((num * Scale) \div UDen)

(* x + sign * sqrt(num / UDen) days in units of 1/Scale, NaN for num < 0 *)
RootOffset(x, sign, num) ==
    IF num < 0 THEN NaN
    ELSE x * Scale + sign * ISqrt((num * Scale * Scale) \div UDen)

(* sampleTriangular with the upper branch measured down from mode *)
sampleTriangularFromMode(min, mode, max, k) ==
    IF DrawBelowF(min, mode, max, k)
    THEN RootOffset(min, 1, k * (max - min) * (mode - min))
    ELSE RootOffset(mode, -1, (UDen - k) * (max - min) * (max - mode))

sampleTriangular(min, mode, max, k) ==
    IF DrawBelowF(min, mode, max, k)
    THEN RootOffset(min, 1, k * (max - min) * (mode - min))
    ELSE RootOffset(max, -1, (UDen - k) * (max - min) * (max - mode))

----------------------------------------------------------------------------
(* topologicalSort.  A traversal state is the closure's three collections  *)
(* plus the exception in flight, if any.                                   *)

CircularDependencyError ==
    [name |-> "Error", message |-> <<"Circular", "dependency", "detected">>]

EmptyTraversal == [visited |-> {}, result |-> <<>>, temp |-> {}, thrown |-> <<>>]

(* tasks.find((t) => t.id === taskId): the first match, <<>> when none *)
Find(tasks, taskId) ==
    LET hits == {k \in DOMAIN tasks : tasks[k].id = taskId}
    IN IF hits = {} THEN <<>>
       ELSE <<tasks[CHOOSE k \in hits : \A j \in hits : k <= j]>>

RECURSIVE visit(_, _, _)
RECURSIVE visitEach(_, _, _)

(* visit with the task pushed before its dependencies are visited *)
visitPushFirst(tasks, st, taskId) ==
    IF taskId \in st.temp THEN [st EXCEPT !.thrown = <<CircularDependencyError>>]
    ELSE IF taskId \in st.visited THEN st
    ELSE LET task == Find(tasks, taskId)
             entered == [st EXCEPT !.temp = @ \cup {taskId},
                                   !.result = IF task # <<>> THEN Append(@, task[1]) ELSE @]
         IN IF task # <<>>
            THEN LET after == visitEach(tasks, entered, task[1].dependencies)
                 IN IF after.thrown # <<>> THEN after
                    ELSE [after EXCEPT !.visited = @ \cup {taskId},
                                       !.temp = @ \ {taskId}]
            ELSE [entered EXCEPT !.temp = @ \ {taskId}]

(* visit returning quietly from a task that is in progress *)
visitNoThrow(tasks, st, taskId) ==
    IF taskId \in st.temp \/ taskId \in st.visited THEN st
    ELSE LET entered == [st EXCEPT !.temp = @ \cup {taskId}]
             task == Find(tasks, taskId)
         IN IF task # <<>>
            THEN LET after == visitEach(tasks, entered, task[1].dependencies)
                 IN [after EXCEPT !.visited = @ \cup {taskId},
                                  !.result = Append(@, task[1]),
                                  !.temp = @ \ {taskId}]
            ELSE [entered EXCEPT !.temp = @ \ {taskId}]

(* task.dependencies.forEach((depId) => visit(depId)); a throw ends the loop *)
visitEach(tasks, st, depIds) ==
    IF depIds = <<>> \/ st.thrown # <<>> THEN st
    ELSE visitEach(tasks, visit(tasks, st, Head(depIds)), Tail(depIds))

visit(tasks, st, taskId) ==
    IF taskId \in st.temp THEN [st EXCEPT !.thrown = <<CircularDependencyError>>]
    ELSE IF taskId \in st.visited THEN st
    ELSE LET entered == [st EXCEPT !.temp = @ \cup {taskId}]
             task == Find(tasks, taskId)
         IN IF task # <<>>
            THEN LET after == visitEach(tasks, entered, task[1].dependencies)
                 IN IF after.thrown # <<>> THEN after
                    ELSE [after EXCEPT !.visited = @ \cup {taskId},
                                       !.result = Append(@, task[1]),
                                       !.temp = @ \ {taskId}]
            ELSE [entered EXCEPT !.temp = @ \ {taskId}]

RECURSIVE visitUnvisitedReverse(_, _, _)

(* visitUnvisited walking the task list from its last task to its first *)
visitUnvisitedReverse(tasks, st, k) ==
    IF k > Len(tasks) \/ st.thrown # <<>> THEN st
    ELSE LET t == tasks[Len(tasks) + 1 - k]
         IN visitUnvisitedReverse(tasks,
                                  IF t.id \in st.visited THEN st
                                  ELSE visit(tasks, st, t.id),
                                  k + 1)

RECURSIVE visitUnvisited(_, _, _)

(* tasks.forEach((t) => { if (!visited.has(t.id)) visit(t.id); }) *)
visitUnvisited(tasks, st, k) ==
    IF k > Len(tasks) \/ st.thrown # <<>> THEN st
    ELSE visitUnvisited(tasks,
                        IF tasks[k].id \in st.visited THEN st
                        ELSE visit(tasks, st, tasks[k].id),
                        k + 1)

(* the traversal state when topologicalSort returns or throws *)
topologicalSort(tasks) == visitUnvisited(tasks, EmptyTraversal, 1)

----------------------------------------------------------------------------
(* runSimulation: one iteration of the run loop *)

(* the numerator of the n-th value Math.random returns *)
Draw(n) == stream[((n - 1) % Len(stream)) + 1]

Ids(tasks) == {tasks[k].id : k \in DOMAIN tasks}

(* 1. Sample durations: project.tasks.forEach, one draw per task in list   *)
(* order; a later task with the same id overwrites the entry.              *)
SampleDurations(tasks, pos) ==
    [id \in Ids(tasks) |->
        LET k == CHOOSE j \in DOMAIN tasks :
                    /\ tasks[j].id = id
                    /\ \A h \in DOMAIN tasks : tasks[h].id = id => h <= j
        IN sampleTriangular(tasks[k].optimistic, tasks[k].mostLikely,
                            tasks[k].pessimistic, Draw(pos + k))]

(* taskFinishTimes[depId] || 0 *)
FinishOrZero(finish, depId) == IF depId \in DOMAIN finish THEN finish[depId] ELSE 0

Min(S) == CHOOSE x \in S : \A y \in S : x <= y

(* StartTime taking the least finish time of the dependencies *)
StartTimeMin(task, finish) ==
    IF Len(task.dependencies) > 0
    THEN Min({FinishOrZero(finish, task.dependencies[d]) : d \in DOMAIN task.dependencies})
    ELSE 0

(* let startTime = 0; if (task.dependencies.length > 0) startTime = Math.max(...) *)
StartTime(task, finish) ==
    IF Len(task.dependencies) > 0
    THEN Max({FinishOrZero(finish, task.dependencies[d]) : d \in DOMAIN task.dependencies})
    ELSE 0

(* TrackDuration keeping the finish time of the task processed last *)
TrackDurationLast(projectDuration, finishTime) == finishTime

(* if (finishTime > projectDuration) projectDuration = finishTime *)
TrackDuration(projectDuration, finishTime) ==
    IF finishTime > projectDuration THEN finishTime ELSE projectDuration

(* the schedule variables declared outside the run loop: a run starts     *)
(* with the finish times and the project duration the previous run left    *)
ScheduleCarried ==
    [start |-> <<>>,
     finish |-> taskFinishTimes,
     projectDuration |->
        IF results = <<>> THEN 0 ELSE results[Len(results)].totalDuration]

EmptySchedule == [start |-> <<>>, finish |-> <<>>, projectDuration |-> 0]

RECURSIVE ForwardPass(_, _, _)

(* 2. Calculate schedule: sortedTasks.forEach, from projectDuration = 0 *)
ForwardPass(sorted, taskDurations, sch) ==
    IF sorted = <<>> THEN sch
    ELSE LET task == Head(sorted)
             startTime == StartTime(task, sch.finish)
             finishTime == startTime + taskDurations[task.id]
         IN ForwardPass(Tail(sorted), taskDurations,
                [start |-> (task.id :> startTime) @@ sch.start,
                 finish |-> (task.id :> finishTime) @@ sch.finish,
                 projectDuration |-> TrackDuration(sch.projectDuration, finishTime)])

RECURSIVE ResourceEvents(_, _, _)

(* 3. the events array: an acquisition and a release for every task whose  *)
(* resourceType and resourceCount are both truthy, in task list order      *)
ResourceEvents(tasks, start, finish) ==
    IF tasks = <<>> THEN <<>>
    ELSE LET t == Head(tasks)
             own == IF TruthyString(t.resourceType) /\ TruthyNumber(t.resourceCount)
                    THEN << [time |-> start[t.id], type |-> t.resourceType[1],
                             change |-> t.resourceCount[1]],
                            [time |-> finish[t.id], type |-> t.resourceType[1],
                             change |-> 0 - t.resourceCount[1]] >>
                    ELSE <<>>
         IN own \o ResourceEvents(Tail(tasks), start, finish)

RECURSIVE SortByTimeFrom(_, _)

SortByTimeFrom(events, times) ==
    IF times = {} THEN <<>>
    ELSE LET t == CHOOSE x \in times : \A y \in times : x <= y
         IN SelectSeq(events, LAMBDA e : e.time = t) \o SortByTimeFrom(events, times \ {t})

(* the events left in the order they were pushed *)
SortByTimeOmitted(events) == events

(* events.sort((a, b) => a.time - b.time): ascending by time, and stable,  *)
(* so events of equal time keep their order in the array                   *)
SortByTime(events) == SortByTimeFrom(events, {events[k].time : k \in DOMAIN events})

(* currentUsage[e.type] || 0, peakResources[e.type] || 0 *)
ValueOrZero(map, key) == IF key \in DOMAIN map THEN map[key] ELSE 0

EmptySweep == [currentUsage |-> <<>>, peakResources |-> <<>>]

(* the body of events.forEach for one event *)
ApplyEvent(sw, e) ==
    LET usage == ValueOrZero(sw.currentUsage, e.type) + e.change
    IN [currentUsage |-> (e.type :> usage) @@ sw.currentUsage,
        peakResources |->
            (e.type :> Max({ValueOrZero(sw.peakResources, e.type), usage}))
                @@ sw.peakResources]

RECURSIVE Sweep(_, _)

Sweep(events, sw) ==
    IF events = <<>> THEN sw ELSE Sweep(Tail(events), ApplyEvent(sw, Head(events)))

(* the locals of one iteration of the run loop, the first draw being draw pos + 1 *)
Run(tasks, sorted, pos) ==
    LET taskDurations == SampleDurations(tasks, pos)
        sch == ForwardPass(sorted, taskDurations, EmptySchedule)
        events == SortByTime(ResourceEvents(tasks, sch.start, sch.finish))
    IN [taskDurations |-> taskDurations,
        taskStartTimes |-> sch.start,
        taskFinishTimes |-> sch.finish,
        projectDuration |-> sch.projectDuration,
        peakResources |-> Sweep(events, EmptySweep).peakResources]

(* the object pushed onto results *)
RunResult(runId, run) ==
    [runId |-> runId,
     totalDuration |-> run.projectDuration,
     criticalPath |-> <<>>,
     taskDurations |-> run.taskDurations,
     taskStartTimes |-> run.taskStartTimes,
     peakResources |-> run.peakResources]

----------------------------------------------------------------------------
(* runSimulation: 4. Calculate Stats *)

RECURSIVE SortAscendingFrom(_, _)

SortAscendingFrom(s, vals) ==
    IF vals = {} THEN <<>>
    ELSE LET v == CHOOSE x \in vals : \A y \in vals : x <= y
         IN [k \in 1..Cardinality({j \in DOMAIN s : s[j] = v}) |-> v]
                \o SortAscendingFrom(s, vals \ {v})

(* the array left in the order of the runs *)
SortAscendingOmitted(s) == s

(* sort((a, b) => a - b) of an array of numbers: the copies of its least   *)
(* value, then those of the next value, and so on                          *)
SortAscending(s) == SortAscendingFrom(s, Range(s))

(* array[index] for a zero-based index: undefined outside the array *)
At(array, index) ==
    IF index >= 0 /\ index < Len(array) THEN <<array[index + 1]>> ELSE <<>>

(* Math.floor(length * p) for p = percent / 100.  For the lengths of the   *)
(* model and p in {0.5, 0.9, 0.95, 0.99} the double product floors to the  *)
(* same integer as the exact product.                                      *)
FloorTimes(length, percent) == (length * percent) \div 100

(* the lower middle index of an array of even length *)
MedianIndexLower(length) == (length - 1) \div 2

(* Math.floor(durations.length / 2) *)
MedianIndex(length) == length \div 2

(* const getPercentile = (p) => durations[Math.floor(durations.length * p)] *)
getPercentile(durations, percent) == At(durations, FloorTimes(Len(durations), percent))

(* sum / length as a fraction; 0/0 is NaN *)
Mean(s) == [num |-> SeqSum(s), den |-> Len(s)]

(* results.map(r => r.peakResources[type] || 0).sort((a, b) => a - b) *)
Peaks(res, type) ==
    SortAscending([k \in DOMAIN res |-> ValueOrZero(res[k].peakResources, type)])

ResourceStats(res, types) ==
    [type \in types |->
        LET peaks == Peaks(res, type)
        IN [meanPeak |-> Mean(peaks),
            p90Peak |-> At(peaks, FloorTimes(Len(peaks), 90)),
            maxPeak |-> At(peaks, Len(peaks) - 1)]]

(* the stats object, without stdDev (the square root of a fraction) *)
Stats(res, types) ==
    LET durations == SortAscending([k \in DOMAIN res |-> res[k].totalDuration])
        median == At(durations, MedianIndex(Len(durations)))
    IN [mean |-> Mean(durations),
        median |-> median,
        min |-> At(durations, 0),
        max |-> At(durations, Len(durations) - 1),
        p50 |-> median,
        p90 |-> getPercentile(durations, 90),
        p95 |-> getPercentile(durations, 95),
        p99 |-> getPercentile(durations, 99),
        resourceStats |-> ResourceStats(res, types)]

(* ResourceTypes keeping only the types of tasks that have a count *)
ResourceTypesCounted(tasks) ==
    {tasks[k].resourceType[1] :
        k \in {j \in DOMAIN tasks : /\ TruthyString(tasks[j].resourceType)
                                    /\ TruthyNumber(tasks[j].resourceCount)}}

(* project.tasks.forEach(t => { if (t.resourceType) resourceTypes.add(...) }) *)
ResourceTypes(tasks) ==
    {tasks[k].resourceType[1] : k \in {j \in DOMAIN tasks : TruthyString(tasks[j].resourceType)}}

(* the loop bound of for (...; i <= iterations; ...) *)
IterationsInclusive(arg) == IF arg = <<>> THEN DefaultIterations + 1 ELSE arg[1] + 1

(* iterations: number = 2000 *)
IterationsOrDefault(arg) == IF arg = <<>> THEN DefaultIterations ELSE arg[1]

----------------------------------------------------------------------------
(* Actions *)

(* TaskTable.removeTask(idx): project.tasks.filter((_, i) => i !== idx) *)
removeTask(idx) ==
    /\ pc = "planner"
    /\ view = "planner"
    /\ ~projectNull
    /\ edits < MaxEdits
    /\ idx \in DOMAIN project
    /\ project' = [k \in 1..(Len(project) - 1) |->
                      IF k < idx THEN project[k] ELSE project[k + 1]]
    /\ edits' = edits + 1
    /\ UNCHANGED <<iterations, stream, rngPos, pc, error, sortedTasks,
                   resourceTypes, i, results, taskFinishTimes, stats>>
    /\ UNCHANGED appVars

(* runSimulationBegin with topologicalSort reordering project.tasks in place *)
runSimulationBeginInPlace ==
    /\ pc = "planner"
    /\ LET sorted == topologicalSort(project)
       IN IF sorted.thrown # <<>>
          THEN /\ pc' = "thrown"
               /\ error' = sorted.thrown
               /\ UNCHANGED <<project, sortedTasks, resourceTypes>>
          ELSE /\ pc' = "loop"
               /\ project' = sorted.result
               /\ sortedTasks' = <<sorted.result>>
               /\ resourceTypes' = ResourceTypes(project)
               /\ UNCHANGED error
    /\ UNCHANGED <<edits, iterations, stream, rngPos, i, results,
                   taskFinishTimes, stats>>
    /\ UNCHANGED appVars

(* runSimulation(project, iterations) up to the run loop: topologicalSort  *)
(* either throws out of runSimulation or yields sortedTasks                *)
runSimulationBegin ==
    /\ pc = "planner"
    /\ LET sorted == topologicalSort(project)
       IN IF sorted.thrown # <<>>
          THEN /\ pc' = "thrown"
               /\ error' = sorted.thrown
               /\ UNCHANGED <<sortedTasks, resourceTypes>>
          ELSE /\ pc' = "loop"
               /\ sortedTasks' = <<sorted.result>>
               /\ resourceTypes' = ResourceTypes(project)
               /\ UNCHANGED error
    /\ UNCHANGED <<project, edits, iterations, stream, rngPos, i, results,
                   taskFinishTimes, stats>>
    /\ UNCHANGED appVars

(* one iteration of for (let i = 0; i < iterations; i++) *)
runIteration ==
    /\ pc = "loop"
    /\ i < IterationsOrDefault(iterations)
    /\ LET run == Run(project, sortedTasks[1], rngPos)
       IN /\ results' = Append(results, RunResult(i, run))
          /\ taskFinishTimes' = run.taskFinishTimes
    /\ rngPos' = rngPos + Len(project)
    /\ i' = i + 1
    /\ UNCHANGED <<project, edits, iterations, stream, pc, error, sortedTasks,
                   resourceTypes, stats>>
    /\ UNCHANGED appVars

(* the loop ends: the statistics are computed and runSimulation returns *)
runSimulationReturn ==
    /\ pc = "loop"
    /\ ~(i < IterationsOrDefault(iterations))
    /\ stats' = <<Stats(results, resourceTypes)>>
    /\ pc' = "done"
    /\ UNCHANGED <<project, edits, iterations, stream, rngPos, error, sortedTasks,
                   resourceTypes, i, results, taskFinishTimes>>
    /\ UNCHANGED appVars

Next ==
    \/ \E idx \in 1..MaxTasks : removeTask(idx)
    \/ runSimulationBegin
    \/ runIteration
    \/ runSimulationReturn

----------------------------------------------------------------------------
(* Initial states: the project the editor holds, the iterations argument   *)
(* and the draws Math.random will return.  Task k of an input has id       *)
(* IdPool[k]; IdPool[n + 1] is an id no task of an n-task input carries.   *)

Streams == [1..MaxTasks -> 0..(UDen - 1)]

(* for a project whose estimates are all degenerate the draws do not matter *)
ZeroStream == [k \in 1..MaxTasks |-> 0]

NoResource == [resourceType |-> <<>>, resourceCount |-> <<>>]

Resource(type, count) == [resourceType |-> <<type>>, resourceCount |-> <<count>>]

ResourceKinds == {NoResource, Resource("dev", 2), Resource("dev", 3), Resource("qa", 2)}

(* declarations with a missing, zero or negative count or an empty type *)
OddKinds ==
    {[resourceType |-> <<"dev">>, resourceCount |-> <<>>], Resource("dev", 0),
     Resource("dev", -1), Resource("", 3)}

FixedDays == {1, 2}

(* the dependency list of task t given the edges <<task, dep>> in es *)
DepsFromEdges(es, t) ==
    LET mine == SelectSeq(es, LAMBDA e : e[1] = t)
    IN [j \in DOMAIN mine |-> IdPool[mine[j][2]]]

(* every dependency structure with at most MaxEdges entries over at most   *)
(* MaxTasks tasks (unknown ids, self-dependencies, cycles and repeated     *)
(* entries included); task t takes exactly t days and uses no resource     *)
GraphInput ==
    \E n \in 0..MaxTasks : \E k \in 0..MaxEdges :
        \E es \in [1..k -> (1..n) \X (1..(n + 1))] :
            /\ project = [t \in 1..n |->
                   Task(IdPool[t], t, t, t, DepsFromEdges(es, t), <<>>, <<>>)]
            /\ iterations = <<1>>
            /\ stream = ZeroStream
            /\ edits = 0

Shapes == {"independent", "forward", "backward"}

(* no dependencies, each task after the one before it in the list, or each *)
(* task after the one that follows it in the list                          *)
ShapeDeps(shape, n, t) ==
    IF shape = "forward" /\ t > 1 THEN <<IdPool[t - 1]>>
    ELSE IF shape = "backward" /\ t < n THEN <<IdPool[t + 1]>>
    ELSE <<>>

(* tasks of fixed duration in one of the three shapes, each with any of    *)
(* the resource declarations                                               *)
ResourceInput ==
    \E n \in 1..MaxTasks : \E shape \in Shapes :
        \E days \in [1..n -> FixedDays] : \E kind \in [1..n -> ResourceKinds] :
            /\ project = [t \in 1..n |->
                   Task(IdPool[t], days[t], days[t], days[t], ShapeDeps(shape, n, t),
                        kind[t].resourceType, kind[t].resourceCount)]
            /\ iterations = <<1>>
            /\ stream = ZeroStream
            /\ edits = MaxEdits

(* one-day tasks in one of the three shapes, each with any declaration,    *)
(* the odd ones included                                                   *)
DeclarationInput ==
    \E n \in 1..MaxTasks : \E shape \in Shapes :
        \E kind \in [1..n -> ResourceKinds \cup OddKinds] :
            /\ project = [t \in 1..n |->
                   Task(IdPool[t], 1, 1, 1, ShapeDeps(shape, n, t),
                        kind[t].resourceType, kind[t].resourceCount)]
            /\ iterations = <<1>>
            /\ stream = ZeroStream
            /\ edits = MaxEdits

(* tasks estimated 0 / 1 / 2 days, all using 2 "dev", under every stream   *)
RandomInput ==
    \E n \in 1..MaxTasks : \E shape \in Shapes : \E draws \in Streams :
        /\ project = [t \in 1..n |->
               Task(IdPool[t], 0, 1, 2, ShapeDeps(shape, n, t), <<"dev">>, <<2>>)]
        /\ iterations = <<1>>
        /\ stream = draws
        /\ edits = MaxEdits

(* the streams of MaxIter draws of which the first c are the highest draw  *)
(* and the others 0                                                        *)
BatchStreams ==
    {[j \in 1..MaxIter |-> IF j <= c THEN UDen - 1 ELSE 0] : c \in 0..MaxIter}

(* one task estimated 0 / 1 / 2 days, under every iteration count up to    *)
(* MaxIter and every multiset of draws                                     *)
BatchInput ==
    \E draws \in BatchStreams : \E count \in 0..MaxIter :
        /\ project = <<Task(IdPool[1], 0, 1, 2, <<>>, <<"dev">>, <<2>>)>>
        /\ iterations = <<count>>
        /\ stream = draws
        /\ edits = MaxEdits

(* the batch of the default size: iterations omitted, for a project of two *)
(* tasks of fixed duration, the second after the first                     *)
DefaultBatchInput ==
    /\ project = <<Task(IdPool[1], 1, 1, 1, <<>>, <<"dev">>, <<3>>),
                   Task(IdPool[2], 2, 2, 2, <<IdPool[1]>>, <<>>, <<>>)>>
    /\ iterations = <<>>
    /\ stream = ZeroStream
    /\ edits = MaxEdits

(* one task with every estimate triple of whole days up to MaxDays with   *)
(* optimistic <= pessimistic (mostLikely is not validated and may lie      *)
(* outside them), under every value of its draw                            *)
EstimateInput ==
    \E min \in 0..MaxDays : \E max \in min..MaxDays :
        \E mode \in 0..MaxDays : \E u \in 0..(UDen - 1) :
            /\ project = <<Task(IdPool[1], min, mode, max, <<>>, <<>>, <<>>)>>
            /\ iterations = <<1>>
            /\ stream = [k \in 1..MaxTasks |-> u]
            /\ edits = MaxEdits

(* MaxTasks runs of one task estimated 0 / 1 / 2 days under every stream,  *)
(* so that a run can repeat the draw of an earlier run after a different   *)
(* one                                                                     *)
ReplayInput ==
    \E draws \in Streams :
        /\ project = <<Task(IdPool[1], 0, 1, 2, <<>>, <<"dev">>, <<2>>)>>
        /\ iterations = <<MaxTasks>>
        /\ stream = draws
        /\ edits = MaxEdits

(* the streams for a three-task project in which the first task draws     *)
(* high in the first c runs and every other draw is 0                      *)
PeakStreams ==
    {[j \in 1..(3 * (MaxIter - 1)) |->
         IF j % 3 = 1 /\ (j + 2) \div 3 <= c THEN UDen - 1 ELSE 0] :
        c \in 0..(MaxIter - 1)}

(* MaxIter - 1 runs of a project whose "dev" peak changes from run to run  *)
(* (a zero-length task of 2 "dev" follows a task of 2 "dev" estimated      *)
(* 0 / 1 / 2 days) and whose type "qa" is declared without a count         *)
PeakBatchInput ==
    \E draws \in PeakStreams :
        /\ project = <<Task(IdPool[1], 0, 1, 2, <<>>, <<"dev">>, <<2>>),
                       Task(IdPool[2], 0, 0, 0, <<>>, <<"dev">>, <<2>>),
                       Task(IdPool[3], 0, 0, 0, <<>>, <<"qa">>, <<>>)>>
        /\ iterations = <<MaxIter - 1>>
        /\ stream = draws
        /\ edits = MaxEdits

InitRest ==
    /\ rngPos = 0
    /\ pc = "planner"
    /\ error = <<>>
    /\ sortedTasks = <<>>
    /\ resourceTypes = {}
    /\ i = 0
    /\ results = <<>>
    /\ taskFinishTimes = <<>>
    /\ stats = <<>>
    /\ view = "planner"
    /\ messages = <<>>
    /\ isAiLoading = FALSE
    /\ inFlight = 0
    /\ lastOutcome = <<>>
    /\ timers = <<>>
    /\ uncaught = <<>>
    /\ simResults = <<>>
    /\ simStats = <<>>
    /\ simProject = <<>>

Init ==
    /\ \/ GraphInput
       \/ ResourceInput
       \/ DeclarationInput
       \/ RandomInput
       \/ BatchInput
       \/ EstimateInput
       \/ ReplayInput
       \/ PeakBatchInput
       \/ DefaultBatchInput
    /\ projectNull = FALSE
    /\ InitRest

Spec == Init /\ [][Next]_vars

----------------------------------------------------------------------------
(* The App component *)

(* runSimulation(project, iterations) as one call, its first draw being    *)
(* draw pos + 1: what it throws, or the results and stats it returns.  The *)
(* draws repeat with the length of the stream, so the locals of a run are  *)
(* computed once for each position in the stream at which a run can start. *)
runSimulation(tasks, n, pos) ==
    LET sorted == topologicalSort(tasks)
    IN IF sorted.thrown # <<>>
       THEN [thrown |-> sorted.thrown, results |-> <<>>, stats |-> <<>>]
       ELSE LET order == sorted.result
                period == Len(stream)
                runAt == SubSeq([o \in 1..period |-> Run(tasks, order, o - 1)], 1, period)
                res == SubSeq([k \in 1..n |->
                          RunResult(k - 1,
                                    runAt[((pos + (k - 1) * Len(tasks)) % period) + 1])],
                              1, n)
            IN [thrown |-> <<>>, results |-> res,
                stats |-> <<Stats(res, ResourceTypes(tasks))>>]

(* the task lists the chat service can send and the App can start with *)
AppProjects ==
    { <<>>,
      <<Task(IdPool[1], 1, 1, 1, <<>>, <<"dev">>, <<3>>),
        Task(IdPool[2], 2, 2, 2, <<IdPool[1]>>, <<>>, <<>>)>>,
      <<Task(IdPool[1], 1, 1, 1, <<IdPool[1]>>, <<>>, <<>>)>> }

(* the texts typed into the chat form: nothing, white space only, and a    *)
(* word with white space around it                                         *)
Inputs == {<<>>, <<" ">>, <<" ", " ">>, <<" ", "a", " ">>}

IsWhiteSpace(c) == c = " "

RECURSIVE trimStart(_)

trimStart(s) ==
    IF s # <<>> /\ IsWhiteSpace(Head(s)) THEN trimStart(Tail(s)) ELSE s

RECURSIVE trimEnd(_)

trimEnd(s) ==
    IF s # <<>> /\ IsWhiteSpace(s[Len(s)])
    THEN trimEnd(SubSeq(s, 1, Len(s) - 1))
    ELSE s

(* String.prototype.trim *)
trim(s) == trimEnd(trimStart(s))

ReplyMessage == <<"reply">>

FallbackMessage ==
    <<"I'm having trouble connecting to the planning engine. Please try again.">>

ErrorMessage == <<"Sorry, I encountered an error processing your request.">>

(* the objects the model's JSON can describe: a message, with or without   *)
(* projectData                                                             *)
Responses ==
    {[message |-> ReplyMessage, projectData |-> pd, isComplete |-> pd # <<>>] :
        pd \in {<<>>} \cup {<<p>> : p \in AppProjects}}

(* response.text: empty, not JSON, or the JSON of a value: null (<<>>) or  *)
(* an object                                                               *)
ModelTexts ==
    {[kind |-> "empty", value |-> <<>>], [kind |-> "malformed", value |-> <<>>],
     [kind |-> "json", value |-> <<>>]}
    \cup {[kind |-> "json", value |-> <<r>>] : r \in Responses}

(* how ai.models.generateContent settles *)
ModelOutcomes ==
    {[rejected |-> TRUE, text |-> [kind |-> "empty", value |-> <<>>]]}
    \cup {[rejected |-> FALSE, text |-> t] : t \in ModelTexts}

(* JSON.parse: throws unless the text is JSON *)
JSONparse(text) ==
    IF text.kind = "json" THEN [thrown |-> FALSE, value |-> text.value]
    ELSE [thrown |-> TRUE, value |-> <<>>]

(* the return of the catch block *)
Fallback == [message |-> FallbackMessage, projectData |-> <<>>, isComplete |-> FALSE]

(* the try block of analyzeProjectDescription from the point generateContent *)
(* settles: the promise is left rejected with nothing caught               *)
analyzeProjectDescriptionUncaught(outcome) ==
    IF outcome.rejected \/ outcome.text.kind = "empty"
       \/ JSONparse(outcome.text).thrown
    THEN [rejected |-> TRUE, value |-> <<>>]
    ELSE [rejected |-> FALSE, value |-> JSONparse(outcome.text).value]

(* analyzeProjectDescription from the point generateContent settles: how   *)
(* its promise settles, value being null (<<>>) or the object              *)
analyzeProjectDescription(outcome) ==
    IF outcome.rejected \/ outcome.text.kind = "empty"
       \/ JSONparse(outcome.text).thrown
    THEN [rejected |-> FALSE, value |-> <<Fallback>>]
    ELSE [rejected |-> FALSE, value |-> JSONparse(outcome.text).value]

(* handleSendMessage(text) up to its await *)
handleSendMessage(text) ==
    /\ messages' = Append(messages, [role |-> "user", text |-> text,
                                      isProjectUpdate |-> FALSE])
    /\ isAiLoading' = TRUE
    /\ inFlight' = inFlight + 1
    /\ UNCHANGED <<project, edits, iterations, stream, rngPos, pc, error,
                   sortedTasks, resourceTypes, i, results, taskFinishTimes, stats,
                   view, lastOutcome, projectNull, timers, uncaught,
                   simResults, simStats, simProject>>

(* ChatInterface.handleSubmit without its test of the input *)
handleSubmitUntested(input) ==
    /\ view = "planner"
    /\ handleSendMessage(input)

(* ChatInterface.handleSubmit, the form being shown in the planner view *)
handleSubmit(input) ==
    /\ view = "planner"
    /\ IF trim(input) = <<>> \/ isAiLoading
       THEN UNCHANGED vars
       ELSE handleSendMessage(input)

(* ai.models.generateContent settles with outcome, analyzeProjectDescription *)
(* runs to its return and handleSendMessage runs on from its await with no *)
(* other task in between: reading response.message of null throws, as a    *)
(* rejected promise does, into the catch block                             *)
handleSendMessageResolved(outcome) ==
    /\ inFlight > 0
    /\ LET promise == analyzeProjectDescription(outcome)
           caught == promise.rejected \/ promise.value = <<>>
           response == promise.value[1]
       IN IF caught
          THEN /\ messages' = Append(messages, [role |-> "model", text |-> ErrorMessage,
                                                 isProjectUpdate |-> FALSE])
               /\ UNCHANGED <<project, projectNull>>
          ELSE /\ messages' = Append(messages,
                                     [role |-> "model", text |-> response.message,
                                      isProjectUpdate |-> response.projectData # <<>>])
               /\ IF response.projectData # <<>>
                  THEN /\ project' = response.projectData[1]
                       /\ projectNull' = FALSE
                  ELSE UNCHANGED <<project, projectNull>>
    /\ isAiLoading' = FALSE
    /\ inFlight' = inFlight - 1
    /\ lastOutcome' = <<outcome>>
    /\ UNCHANGED <<edits, iterations, stream, rngPos, pc, error, sortedTasks,
                   resourceTypes, i, results, taskFinishTimes, stats, view, timers,
                   uncaught, simResults, simStats, simProject>>

(* handleRunSimulation: the Run Simulation button of the task table, which *)
(* is shown once there is a project; the callback closes over the project  *)
(* of this render                                                          *)
handleRunSimulation ==
    /\ view = "planner"
    /\ ~projectNull
    /\ Len(timers) < MaxTimers
    /\ timers' = IF projectNull \/ Len(project) = 0 THEN timers
                 ELSE Append(timers, project)
    /\ UNCHANGED <<project, edits, iterations, stream, rngPos, pc, error,
                   sortedTasks, resourceTypes, i, results, taskFinishTimes, stats,
                   view, messages, isAiLoading, inFlight, lastOutcome, projectNull,
                   uncaught, simResults, simStats, simProject>>

(* the callback with setView('results') moved before the runSimulation call *)
timerCallbackViewFirst ==
    /\ timers # <<>>
    /\ view' = "results"
    /\ \E captured \in {Head(timers)} :
          \E out \in {runSimulation(captured, AppIterations, rngPos)} :
             IF out.thrown # <<>>
             THEN /\ uncaught' = out.thrown
                  /\ UNCHANGED <<rngPos, simResults, simStats, simProject>>
             ELSE /\ simResults' = out.results
                  /\ simStats' = out.stats
                  /\ simProject' = <<captured>>
                  /\ rngPos' = (rngPos + AppIterations * Len(captured)) % Len(stream)
                  /\ UNCHANGED uncaught
    /\ timers' = Tail(timers)
    /\ UNCHANGED <<project, edits, iterations, stream, pc, error, sortedTasks,
                   resourceTypes, i, results, taskFinishTimes, stats, messages,
                   isAiLoading, inFlight, lastOutcome, projectNull>>

(* the setTimeout callback of handleRunSimulation, 100 ms later; when      *)
(* runSimulation throws, the three setters are not reached and the error   *)
(* leaves the callback.  The draws repeat with the length of the stream,   *)
(* so rngPos is kept as the position within it.                            *)
timerCallback ==
    /\ timers # <<>>
    /\ \E captured \in {Head(timers)} :
          \E out \in {runSimulation(captured, AppIterations, rngPos)} :
             IF out.thrown # <<>>
             THEN /\ uncaught' = out.thrown
                  /\ UNCHANGED <<rngPos, view, simResults, simStats, simProject>>
             ELSE /\ simResults' = out.results
                  /\ simStats' = out.stats
                  /\ view' = "results"
                  /\ simProject' = <<captured>>
                  /\ rngPos' = (rngPos + AppIterations * Len(captured)) % Len(stream)
                  /\ UNCHANGED uncaught
    /\ timers' = Tail(timers)
    /\ UNCHANGED <<project, edits, iterations, stream, pc, error, sortedTasks,
                   resourceTypes, i, results, taskFinishTimes, stats, messages,
                   isAiLoading, inFlight, lastOutcome, projectNull>>

(* Dashboard's onBack: () => setView('planner') *)
onBack ==
    /\ view = "results"
    /\ simStats # <<>>
    /\ ~projectNull
    /\ view' = "planner"
    /\ UNCHANGED <<project, edits, iterations, stream, rngPos, pc, error,
                   sortedTasks, resourceTypes, i, results, taskFinishTimes, stats,
                   messages, isAiLoading, inFlight, lastOutcome, projectNull, timers,
                   uncaught, simResults, simStats, simProject>>

(* the replies the chat service gives while simulations are requested:    *)
(* those with a project that has tasks, which can or cannot be scheduled   *)
AppOutcomes ==
    {o \in ModelOutcomes :
        /\ o.text.kind = "json" /\ o.text.value # <<>>
        /\ o.text.value[1].projectData # <<>>
        /\ o.text.value[1].projectData[1] # <<>>}

NextApp ==
    \/ \E idx \in 1..MaxTasks : removeTask(idx)
    \/ Len(messages) < 2 * MaxAppChats /\ \E input \in Inputs : handleSubmit(input)
    \/ \E outcome \in AppOutcomes : handleSendMessageResolved(outcome)
    \/ handleRunSimulation
    \/ timerCallback
    \/ onBack

(* the chat alone, with every way the request can settle *)
NextChat ==
    \/ Len(messages) < 2 * MaxChats /\ \E input \in Inputs : handleSubmit(input)
    \/ \E outcome \in ModelOutcomes : handleSendMessageResolved(outcome)

(* the App as constructed, or holding one of the projects the chat can     *)
(* give it, nothing requested yet                                          *)
InitApp ==
    /\ \/ projectNull = TRUE /\ project = <<>>
       \/ projectNull = FALSE /\ project \in AppProjects
    /\ iterations = <<AppIterations>>
    /\ stream = ZeroStream
    /\ edits = 0
    /\ InitRest

SpecApp == InitApp /\ [][NextApp]_vars

SpecChat == InitApp /\ [][NextChat]_vars

(* the chat whose every request settles; the continuation of the await is  *)
(* then run by the event loop                                              *)
SpecChatFair ==
    SpecChat /\ WF_vars(\E outcome \in ModelOutcomes : handleSendMessageResolved(outcome))

----------------------------------------------------------------------------
(* Vocabulary of the claims, defined on the task list alone *)

UniqueIds(tasks) == \A j, k \in DOMAIN tasks : tasks[j].id = tasks[k].id => j = k

DependencyIds(task) == Range(task.dependencies)

(* some task lists a dependency id that matches no task *)
HasUnknownDependency(tasks) ==
    \E k \in DOMAIN tasks : \E d \in DependencyIds(tasks[k]) : d \notin Ids(tasks)

(* the ids a task of the list depends on directly *)
DirectDeps(tasks, id) ==
    UNION {DependencyIds(tasks[k]) : k \in {j \in DOMAIN tasks : tasks[j].id = id}}

RECURSIVE Closure(_, _)

Closure(tasks, ids) ==
    LET more == ids \cup UNION {DirectDeps(tasks, id) : id \in ids}
    IN IF more = ids THEN ids ELSE Closure(tasks, more)

(* the ids id depends on, directly or transitively *)
DependsOn(tasks, id) == Closure(tasks, DirectDeps(tasks, id))

OnCycle(tasks, id) == id \in Ids(tasks) /\ id \in DependsOn(tasks, id)

HasCycle(tasks) == \E id \in Ids(tasks) : OnCycle(tasks, id)

ValidAcyclic(tasks) ==
    UniqueIds(tasks) /\ ~HasUnknownDependency(tasks) /\ ~HasCycle(tasks)

(* the positions at which a task with this id stands in a list *)
PositionsOf(list, id) == {k \in DOMAIN list : list[k].id = id}

Called == pc # "planner"

----------------------------------------------------------------------------
(* C1: for a task list with unique ids, no unknown dependency and no       *)
(* cycle, topologicalSort returns (it does not throw) a list that holds    *)
(* every task of the input exactly once, each task at a later position     *)
(* than every task named in its dependencies.                              *)
C1_TopologicalOrder ==
    (Called /\ ValidAcyclic(project)) =>
        /\ pc # "thrown"
        /\ sortedTasks # <<>>
        /\ Len(sortedTasks[1]) = Len(project)
        /\ \A k \in DOMAIN project :
              /\ Cardinality(PositionsOf(sortedTasks[1], project[k].id)) = 1
              /\ \A p \in PositionsOf(sortedTasks[1], project[k].id) :
                    /\ sortedTasks[1][p] = project[k]
                    /\ \A d \in DependencyIds(project[k]) :
                          \A q \in PositionsOf(sortedTasks[1], d) : q < p

(* a sorted three-task list whose first task depends on the two others *)
C1_Witness ==
    /\ pc = "loop"
    /\ ValidAcyclic(project)
    /\ Len(project) = 3
    /\ Cardinality(DependencyIds(project[1])) = 2
    /\ sortedTasks[1][3] = project[1]

(* C2: when the dependency relation has a cycle (a self-dependency         *)
(* included), runSimulation ends by throwing: no order, no run result and  *)
(* no statistics exist and no duration was sampled.                        *)
C2_CycleFails ==
    (Called /\ HasCycle(project)) =>
        /\ pc = "thrown"
        /\ error # <<>>
        /\ sortedTasks = <<>>
        /\ results = <<>>
        /\ stats = <<>>
        /\ rngPos = 0

(* the throw for a cycle through three tasks, none depending on itself *)
C2_Witness ==
    /\ pc = "thrown"
    /\ Len(project) = 3
    /\ \A k \in DOMAIN project :
          /\ OnCycle(project, project[k].id)
          /\ project[k].id \notin DependencyIds(project[k])
          /\ Len(project[k].dependencies) = 1

(* C3: when some task lists a dependency id that matches no task,          *)
(* runSimulation fails before any sampling and produces no run result.     *)
C3_UnknownDependencyFails ==
    (Called /\ HasUnknownDependency(project)) =>
        /\ pc = "thrown"
        /\ results = <<>>
        /\ rngPos = 0

(* C4: the error thrown for a cycle names a task on the cycle: some word   *)
(* of its message is the id of a task that depends on itself.              *)
C4_ErrorNamesCycleTask ==
    pc = "thrown" =>
        \E w \in Range(error[1].message) : OnCycle(project, w)

----------------------------------------------------------------------------
(* Vocabulary of the claims about run results *)

(* the run results a state shows: all of them once runSimulation has       *)
(* returned, the one just pushed while the loop runs                       *)
ShownRuns == IF pc = "done" THEN DOMAIN results ELSE {Len(results)} \ {0}

(* the finish time of a task as a run result gives it *)
FinishIn(r, id) == r.taskStartTimes[id] + r.taskDurations[id]

(* the tasks (by position) that emit events for a resource type *)
UsersOf(type) ==
    {k \in DOMAIN project :
        /\ TruthyString(project[k].resourceType)
        /\ project[k].resourceType[1] = type
        /\ TruthyNumber(project[k].resourceCount)}

CountOf(k) == project[k].resourceCount[1]

RECURSIVE SumCounts(_)

SumCounts(S) ==
    IF S = {} THEN 0
    ELSE LET k == CHOOSE x \in S : TRUE IN CountOf(k) + SumCounts(S \ {k})

(* the summed resourceCount of the tasks of a type active at instant t *)
ActiveSum(r, type, t) ==
    SumCounts({k \in UsersOf(type) :
                  r.taskStartTimes[project[k].id] <= t /\ t < FinishIn(r, project[k].id)})

EventTimes(r, type) ==
    UNION {{r.taskStartTimes[project[k].id], FinishIn(r, project[k].id)} : k \in UsersOf(type)}

(* the maximum instantaneous concurrent usage of a type in a run *)
TruePeak(r, type) == Max({0} \cup {ActiveSum(r, type, t) : t \in EventTimes(r, type)})

(* the instants at which some event of the type raises, or lowers, the usage *)
RaisingTimes(r, type) ==
    {r.taskStartTimes[project[k].id] : k \in {u \in UsersOf(type) : CountOf(u) > 0}}
        \cup {FinishIn(r, project[k].id) : k \in {u \in UsersOf(type) : CountOf(u) < 0}}

LoweringTimes(r, type) ==
    {FinishIn(r, project[k].id) : k \in {u \in UsersOf(type) : CountOf(u) > 0}}
        \cup {r.taskStartTimes[project[k].id] : k \in {u \in UsersOf(type) : CountOf(u) < 0}}

(* no release shares a timestamp with an acquisition of the type *)
NoTie(r, type) == RaisingTimes(r, type) \cap LoweringTimes(r, type) = {}

DeclaredTypes ==
    {project[k].resourceType[1] : k \in {j \in DOMAIN project : project[j].resourceType # <<>>}}

----------------------------------------------------------------------------
(* C5: in every run result of a valid project the duration of a task is    *)
(* the sample drawn for it in that run, a task without dependencies starts *)
(* at 0, a task with dependencies starts at the greatest finish time of    *)
(* its direct dependencies (so never before one of them finishes), and the *)
(* finish time is start time + duration.                                   *)
C5_ForwardPass ==
    ValidAcyclic(project) =>
        \A n \in ShownRuns :
            LET r == results[n]
            IN \A k \in DOMAIN project :
                  LET t == project[k]
                  IN /\ r.taskDurations[t.id] =
                            sampleTriangular(t.optimistic, t.mostLikely, t.pessimistic,
                                             Draw((n - 1) * Len(project) + k))
                     /\ t.dependencies = <<>> => r.taskStartTimes[t.id] = 0
                     /\ t.dependencies # <<>> =>
                            /\ \E d \in DependencyIds(t) :
                                  r.taskStartTimes[t.id] = FinishIn(r, d)
                            /\ \A d \in DependencyIds(t) :
                                  r.taskStartTimes[t.id] >= FinishIn(r, d)
                     /\ n = Len(results) => taskFinishTimes[t.id] = FinishIn(r, t.id)

(* a task with two dependencies of different finish times has been scheduled *)
C5_Witness ==
    /\ pc = "done"
    /\ ValidAcyclic(project)
    /\ \E k \in DOMAIN project : \E d, e \in DependencyIds(project[k]) :
          /\ FinishIn(results[1], d) < FinishIn(results[1], e)
          /\ results[1].taskStartTimes[project[k].id] = FinishIn(results[1], e)
          /\ results[1].taskStartTimes[project[k].id] > 0

(* C6: in every run result totalDuration is the greatest finish time       *)
(* taskStartTimes[id] + taskDurations[id] over the tasks of the project,   *)
(* and it is 0 only if every task finishes at time 0.                      *)
C6_TotalDuration ==
    \A n \in ShownRuns :
        LET r == results[n]
        IN /\ \A k \in DOMAIN project : FinishIn(r, project[k].id) <= r.totalDuration
           /\ project # <<>> =>
                 \E k \in DOMAIN project : FinishIn(r, project[k].id) = r.totalDuration
           /\ r.totalDuration = 0 =>
                 \A k \in DOMAIN project : FinishIn(r, project[k].id) = 0

(* the task that finishes last is not the last one of the sorted order *)
C6_Witness ==
    /\ pc = "done"
    /\ Len(project) = 3
    /\ results # <<>>
    /\ LET last == sortedTasks[1][3].id
       IN FinishIn(results[1], last) < results[1].totalDuration

(* C7: events of a resource type that share a timestamp are applied as one *)
(* combined delta before the peak is compared, so the recorded peak is the *)
(* maximum instantaneous concurrent usage.  Stated for the runs in which   *)
(* every task that uses a resource has a positive count and a positive     *)
(* duration, where events share a timestamp only across tasks.             *)
C7_CombinedDeltaPeak ==
    \A n \in ShownRuns :
        LET r == results[n]
        IN (\A type \in DOMAIN r.peakResources : \A k \in UsersOf(type) :
                CountOf(k) > 0 /\ r.taskDurations[project[k].id] > 0)
           => \A type \in DOMAIN r.peakResources :
                 r.peakResources[type] = TruePeak(r, type)

(* C8: in a run where no release of a resource type shares a timestamp     *)
(* with an acquisition of that type, the recorded peak of the type is the  *)
(* maximum over instants of the summed resourceCount of the tasks of that  *)
(* type active at the instant; a peak is recorded for exactly the types    *)
(* some task uses.  A release is an event that lowers the usage, an        *)
(* acquisition one that raises it.                                         *)
C8_PeakWithoutTies ==
    \A n \in ShownRuns :
        LET r == results[n]
        IN /\ DOMAIN r.peakResources = {type \in DeclaredTypes : UsersOf(type) # {}}
           /\ \A type \in DOMAIN r.peakResources :
                 NoTie(r, type) => r.peakResources[type] = TruePeak(r, type)

(* tasks with counts 2 and 3 overlap without a tie and the peak is 5 *)
C8_Witness ==
    /\ pc = "done"
    /\ results # <<>>
    /\ "dev" \in DOMAIN results[1].peakResources
    /\ NoTie(results[1], "dev")
    /\ {CountOf(k) : k \in UsersOf("dev")} = {2, 3}
    /\ Cardinality(UsersOf("dev")) = 2
    /\ results[1].peakResources["dev"] = 5

(* C9: a call that returns has produced exactly as many run results as the *)
(* iterations argument says, 2000 when the argument is omitted, and the    *)
(* result at position k (counted from 0) carries runId k.                  *)
C9_RunCount ==
    pc = "done" =>
        /\ iterations # <<>> => Len(results) = iterations[1]
        /\ iterations = <<>> => Len(results) = 2000
        /\ \A n \in DOMAIN results : results[n].runId = n - 1

(* a call with an explicit iteration count of at least three has returned *)
C9_Witness ==
    /\ pc = "done"
    /\ iterations # <<>>
    /\ iterations[1] >= 3
    /\ Len(results) = iterations[1]
    /\ results[3].runId = 2
    /\ stats # <<>>

(* the value at zero-based position j of the ascending order of d: fewer   *)
(* than j + 1 elements lie below it and at least j + 1 are not above it    *)
OrderStatistic(d, j) ==
    CHOOSE v \in Range(d) :
        /\ Cardinality({k \in DOMAIN d : d[k] < v}) <= j
        /\ j < Cardinality({k \in DOMAIN d : d[k] <= v})

TotalDurations == [k \in DOMAIN results |-> results[k].totalDuration]

(* C10: for a non-empty run collection of size n, with the durations in    *)
(* ascending order, median is the element at index floor(n / 2), p90, p95  *)
(* and p99 the elements at index floor(n * p), min the element at index 0  *)
(* and max the element at index n - 1; all these indices lie in 0..n-1.    *)
C10_Percentiles ==
    (pc = "done" /\ results # <<>>) =>
        LET n == Len(results)
            d == TotalDurations
            s == stats[1]
        IN /\ {n \div 2, (n * 90) \div 100, (n * 95) \div 100, (n * 99) \div 100}
                  \subseteq 0..(n - 1)
           /\ s.median = <<OrderStatistic(d, n \div 2)>>
           /\ s.p90 = <<OrderStatistic(d, (n * 90) \div 100)>>
           /\ s.p95 = <<OrderStatistic(d, (n * 95) \div 100)>>
           /\ s.p99 = <<OrderStatistic(d, (n * 99) \div 100)>>
           /\ s.min = <<OrderStatistic(d, 0)>>
           /\ s.max = <<OrderStatistic(d, n - 1)>>

(* 21 runs of which exactly two are long: p90 is below p95 *)
C10_Witness ==
    /\ pc = "done"
    /\ Len(results) = 21
    /\ stats[1].median = stats[1].p90
    /\ stats[1].p90 # stats[1].p95
    /\ stats[1].p95 = stats[1].max

(* C11: for every non-empty run collection p50 equals median and the       *)
(* percentiles do not decrease: min <= p50 <= p90 <= p95 <= p99 <= max.    *)
C11_PercentilesMonotonic ==
    (pc = "done" /\ results # <<>>) =>
        LET s == stats[1]
        IN /\ s.p50 = s.median
           /\ s.min[1] <= s.p50[1]
           /\ s.p50[1] <= s.p90[1]
           /\ s.p90[1] <= s.p95[1]
           /\ s.p95[1] <= s.p99[1]
           /\ s.p99[1] <= s.max[1]

(* 20 runs, the first longer than the last, with p50 above min *)
C11_Witness ==
    /\ pc = "done"
    /\ Len(results) = 20
    /\ results[1].totalDuration > results[20].totalDuration
    /\ stats[1].min[1] < stats[1].p50[1]
    /\ stats[1].p50 = stats[1].p99

----------------------------------------------------------------------------
(* Vocabulary of the claims about resource statistics *)

(* the distinct non-empty resourceType labels of the project's tasks *)
NonEmptyTypes ==
    {project[k].resourceType[1] :
        k \in {j \in DOMAIN project : /\ project[j].resourceType # <<>>
                                      /\ project[j].resourceType[1] # ""}}

(* the peak run k recorded for a type, 0 when it recorded none *)
PeakOfRun(k, type) ==
    IF type \in DOMAIN results[k].peakResources
    THEN results[k].peakResources[type] ELSE 0

RunPeaks(type) == [k \in DOMAIN results |-> PeakOfRun(k, type)]

(* the sum of a sequence of numbers, value by value *)
Total(p) ==
    SetSum(Range(p), [v \in Range(p) |-> Cardinality({k \in DOMAIN p : p[k] = v})])

----------------------------------------------------------------------------
(* the tasks (by position) that declare a resource type and a positive count *)
PositiveUsers ==
    {k \in DOMAIN project :
        /\ project[k].resourceType # <<>>
        /\ project[k].resourceType[1] # ""
        /\ project[k].resourceCount # <<>>
        /\ project[k].resourceCount[1] > 0}

(* the events the code pushes for the task at position k in run r *)
EventsOfTask(r, k) ==
    ResourceEvents(<<project[k]>>, r.taskStartTimes,
                   [id \in DOMAIN r.taskStartTimes |-> FinishIn(r, id)])

(* C13: a task contributes an acquisition event at its start and a release *)
(* event at its finish if and only if it declares a resource type and a    *)
(* positive count; a task with a type but a zero, undefined or negative    *)
(* count contributes no event and changes no peak, so a run records a peak *)
(* only for the types of tasks with a positive count.                      *)
C13_EventsIffPositiveCount ==
    \A n \in ShownRuns :
        LET r == results[n]
        IN /\ \A k \in DOMAIN project :
                 IF k \in PositiveUsers
                 THEN EventsOfTask(r, k) =
                        << [time |-> r.taskStartTimes[project[k].id],
                            type |-> project[k].resourceType[1],
                            change |-> project[k].resourceCount[1]],
                           [time |-> FinishIn(r, project[k].id),
                            type |-> project[k].resourceType[1],
                            change |-> 0 - project[k].resourceCount[1]] >>
                 ELSE EventsOfTask(r, k) = <<>>
           /\ DOMAIN r.peakResources =
                 {project[k].resourceType[1] : k \in PositiveUsers}

----------------------------------------------------------------------------
(* neither of the tasks at positions p and q depends on the other *)
Independent(p, q) ==
    /\ project[p].id \notin DependsOn(project, project[q].id)
    /\ project[q].id \notin DependsOn(project, project[p].id)

(* the position of a task in the order topologicalSort returned *)
SortedPosition(id) == CHOOSE k \in PositionsOf(sortedTasks[1], id) : TRUE

(* some task listed before position p depends on the task at position q *)
PulledBefore(p, q) ==
    \E z \in 1..(p - 1) : project[q].id \in DependsOn(project, project[z].id)

(* C14 as claimed: of two tasks of a valid acyclic list neither of which   *)
(* depends on the other, the one earlier in the input list is earlier in   *)
(* the output of topologicalSort.                                          *)
C14_IndependentInputOrder ==
    (pc = "loop" /\ ValidAcyclic(project)) =>
        \A p, q \in DOMAIN project :
            (p < q /\ Independent(p, q)) =>
                SortedPosition(project[p].id) < SortedPosition(project[q].id)

(* C14 amended: of two tasks of a valid acyclic list neither of which      *)
(* depends on the other, the one earlier in the input list is earlier in   *)
(* the output of topologicalSort unless the later one is a direct or       *)
(* transitive dependency of a task listed before the earlier one.          *)
C14_InputOrderUnlessPulled ==
    (pc = "loop" /\ ValidAcyclic(project)) =>
        \A p, q \in DOMAIN project :
            (p < q /\ Independent(p, q) /\ ~PulledBefore(p, q)) =>
                SortedPosition(project[p].id) < SortedPosition(project[q].id)

(* the second task depends on the third, the first on nothing: the first   *)
(* and the third keep their input order and the second comes last          *)
C14_Witness ==
    /\ pc = "loop"
    /\ ValidAcyclic(project)
    /\ Len(project) = 3
    /\ project[1].dependencies = <<>>
    /\ project[2].dependencies = <<project[3].id>>
    /\ project[3].dependencies = <<>>
    /\ sortedTasks[1] = <<project[1], project[3], project[2]>>

----------------------------------------------------------------------------
(* the draw the task at position k consumes in run n *)
DrawOf(n, k) == Draw((n - 1) * Len(project) + k)

(* C15: a task whose optimistic and pessimistic estimates are equal gets   *)
(* exactly that constant as its duration in every run, whatever the draw   *)
(* and the mostLikely value (so it is a number, not NaN or infinite).      *)
C15_DegenerateConstant ==
    UniqueIds(project) =>
        \A n \in ShownRuns : \A k \in DOMAIN project :
            project[k].optimistic = project[k].pessimistic =>
                results[n].taskDurations[project[k].id] = project[k].optimistic * Scale

(* degenerate estimates with mostLikely below them and a non-zero draw *)
C15_Witness ==
    /\ pc = "done"
    /\ Len(project) = 1
    /\ results # <<>>
    /\ project[1].optimistic = project[1].pessimistic
    /\ project[1].optimistic > 0
    /\ project[1].mostLikely < project[1].optimistic
    /\ DrawOf(1, 1) > 0
    /\ results[1].taskDurations[project[1].id] = project[1].optimistic * Scale

(* C18: for estimates with optimistic < pessimistic and mostLikely between *)
(* them (bounds included) every sampled duration lies in the closed        *)
(* interval from optimistic to pessimistic, whatever the draw.             *)
C18_SampleInRange ==
    UniqueIds(project) =>
        \A n \in ShownRuns : \A k \in DOMAIN project :
            (/\ project[k].optimistic < project[k].pessimistic
             /\ project[k].optimistic <= project[k].mostLikely
             /\ project[k].mostLikely <= project[k].pessimistic) =>
                /\ project[k].optimistic * Scale
                      <= results[n].taskDurations[project[k].id]
                /\ results[n].taskDurations[project[k].id]
                      <= project[k].pessimistic * Scale

(* a sample strictly between mostLikely and pessimistic, mostLikely being  *)
(* strictly inside the interval                                            *)
C18_Witness ==
    /\ pc = "done"
    /\ Len(project) = 1
    /\ results # <<>>
    /\ project[1].optimistic < project[1].mostLikely
    /\ project[1].mostLikely < project[1].pessimistic
    /\ project[1].mostLikely * Scale < results[1].taskDurations[project[1].id]
    /\ results[1].taskDurations[project[1].id] < project[1].pessimistic * Scale

----------------------------------------------------------------------------
(* runs m and n consumed the same draws, task by task *)
SameDraws(m, n) == \A k \in DOMAIN project : DrawOf(m, k) = DrawOf(n, k)

(* a run result without its runId *)
Outcome(r) ==
    [totalDuration |-> r.totalDuration, criticalPath |-> r.criticalPath,
     taskDurations |-> r.taskDurations, taskStartTimes |-> r.taskStartTimes,
     peakResources |-> r.peakResources]

C17_ProjectNotMutated == [][pc' # "planner" => project' = project]_vars

(* a call has returned for a project whose topological order differs from  *)
(* its list order and whose tasks use resources                            *)
C17_Witness ==
    /\ pc = "done"
    /\ Len(project) >= 2
    /\ sortedTasks[1] # project
    /\ results # <<>>
    /\ DOMAIN results[1].peakResources # {}

(* the usage of each type after each event of the sweep of run r *)
UsageAfter(r, m) ==
    Sweep(SubSeq(SortByTime(ResourceEvents(project, r.taskStartTimes,
                    [id \in DOMAIN r.taskStartTimes |-> FinishIn(r, id)])), 1, m),
          EmptySweep).currentUsage

EventCount(r) ==
    Len(ResourceEvents(project, r.taskStartTimes,
                       [id \in DOMAIN r.taskStartTimes |-> FinishIn(r, id)]))

(* C20: in the resource sweep of a run with non-negative durations the     *)
(* running usage of every resource type is never negative after an event   *)
(* is applied and is exactly 0 after the last event.                       *)
C20_UsageNeverNegative ==
    \A n \in ShownRuns :
        LET r == results[n]
        IN (\A id \in DOMAIN r.taskDurations : r.taskDurations[id] >= 0) =>
              /\ \A m \in 1..EventCount(r) :
                    \A type \in DOMAIN UsageAfter(r, m) : UsageAfter(r, m)[type] >= 0
              /\ \A type \in DOMAIN UsageAfter(r, EventCount(r)) :
                    UsageAfter(r, EventCount(r))[type] = 0

----------------------------------------------------------------------------
(* C19: whenever the application shows the results view, the statistics    *)
(* and run results handed to the Dashboard were computed from the project  *)
(* the application currently holds.                                        *)
C19_ResultsOfCurrentProject ==
    view = "results" =>
        /\ simProject = <<project>>
        /\ \A k \in DOMAIN simResults :
              DOMAIN simResults[k].taskDurations = Ids(project)

----------------------------------------------------------------------------
(* a setTimeout call is made in this step *)
Schedules == Len(timers') > Len(timers)

(* a timer callback runs in this step *)
Fires == timers # <<>> /\ timers' = Tail(timers)

(* C21: requesting a simulation changes the application state only on      *)
(* success.  No timer is set for a project that is null or has no tasks;   *)
(* a callback whose runSimulation throws leaves the view, the stored       *)
(* results and the stored statistics as they were; and the view becomes    *)
(* 'results' only in the step of a callback whose simulation completed,    *)
(* the step that stores its AppIterations results and their statistics.    *)
C21_StateChangesOnlyOnSuccess ==
    [][/\ Schedules => ~projectNull /\ Len(project) > 0
       /\ (Fires /\ topologicalSort(Head(timers)).thrown # <<>>) =>
              /\ view' = view
              /\ simResults' = simResults
              /\ simStats' = simStats
       /\ (view # "results" /\ view' = "results") =>
              /\ Fires
              /\ topologicalSort(Head(timers)).thrown = <<>>
              /\ Len(simResults') = AppIterations
              /\ simStats' = <<Stats(simResults', ResourceTypes(Head(timers)))>>
              /\ \A k \in DOMAIN simResults' :
                    DOMAIN simResults'[k].taskDurations = Ids(Head(timers))]_vars

(* a callback has thrown on a cyclic project in the planner view, after    *)
(* the results of an earlier simulation were stored                        *)
C21_Witness ==
    /\ uncaught # <<>>
    /\ view = "planner"
    /\ timers = <<>>
    /\ HasCycle(project)
    /\ simStats # <<>>
    /\ Len(simResults) = AppIterations

----------------------------------------------------------------------------
(* the model call fails, returns empty text, or returns text that is not   *)
(* JSON                                                                    *)
FailedRequest(outcome) ==
    outcome.rejected \/ outcome.text.kind = "empty" \/ outcome.text.kind = "malformed"

(* a chat request settles in this step *)
Settles == inFlight' < inFlight

LastMessage(msgs) == msgs[Len(msgs)]

(* C22: analyzeProjectDescription never rejects, and when the model call   *)
(* fails, returns empty text or returns text that is not valid JSON it     *)
(* resolves to the fallback (the connection-trouble message, isComplete    *)
(* false, no projectData); the application then shows that message and     *)
(* the project it holds is unchanged.                                      *)
C22_FailedRequestFallsBack ==
    [][Settles =>
          LET outcome == lastOutcome'[1]
              promise == analyzeProjectDescription(outcome)
          IN /\ ~promise.rejected
             /\ FailedRequest(outcome) =>
                   /\ promise.value # <<>>
                   /\ promise.value[1].message = FallbackMessage
                   /\ promise.value[1].isComplete = FALSE
                   /\ promise.value[1].projectData = <<>>
                   /\ LastMessage(messages').role = "model"
                   /\ LastMessage(messages').text = FallbackMessage
                   /\ project' = project
                   /\ projectNull' = projectNull]_vars

(* the model's text was not JSON while the application held a project with *)
(* tasks: the fallback message is shown and the request is over            *)
C22_Witness ==
    /\ lastOutcome # <<>>
    /\ ~lastOutcome[1].rejected
    /\ lastOutcome[1].text.kind = "malformed"
    /\ ~projectNull
    /\ Len(project) > 0
    /\ messages # <<>>
    /\ LastMessage(messages).text = FallbackMessage
    /\ ~isAiLoading

----------------------------------------------------------------------------
(* handleSendMessage is called in this step *)
Sends == Len(messages') > Len(messages) /\ LastMessage(messages').role = "user"

Count(msgs, role) == Cardinality({k \in DOMAIN msgs : msgs[k].role = role})

(* C23: every accepted chat message is answered.  A message is sent only   *)
(* while isAiLoading is false and only if its text is not blank, and       *)
(* sending sets isAiLoading; when the request settles, exactly one model   *)
(* message is appended after that user message and isAiLoading is cleared; *)
(* nothing else changes the messages, so user and model messages alternate *)
(* with at most the last user message unanswered; and, the request         *)
(* settling, a loading chat is eventually not loading.                     *)
C23_EveryMessageAnswered ==
    /\ [][/\ Sends => /\ ~isAiLoading
                      /\ isAiLoading'
                      /\ messages' = Append(messages, LastMessage(messages'))
                      /\ trim(LastMessage(messages').text) # <<>>
          /\ Settles => /\ isAiLoading
                        /\ ~isAiLoading'
                        /\ LastMessage(messages).role = "user"
                        /\ messages' = Append(messages, LastMessage(messages'))
                        /\ LastMessage(messages').role = "model"
          /\ messages' # messages => Sends \/ Settles]_vars
    /\ [](/\ isAiLoading <=> inFlight = 1
          /\ inFlight \in {0, 1}
          /\ Count(messages, "user") = Count(messages, "model") + inFlight
          /\ \A k \in DOMAIN messages :
                messages[k].role = (IF k % 2 = 1 THEN "user" ELSE "model")
          /\ \A k \in DOMAIN messages :
                messages[k].role = "user" => trim(messages[k].text) # <<>>)
    /\ (isAiLoading ~>
          (~isAiLoading /\ messages # <<>> /\ LastMessage(messages).role = "model"))

(* two messages were sent, the second after the first was answered, and    *)
(* both have their answer, one of them from the catch block                *)
C23_Witness ==
    /\ Len(messages) = 4
    /\ ~isAiLoading
    /\ messages[2].role = "model"
    /\ messages[4].role = "model"
    /\ messages[2].text = ErrorMessage
    /\ messages[4].text = ReplyMessage

====
